---- MODULE Spec2Model ----
(***************************************************************************)
(* Multi-Monitor-Planner (src/script.js): MonitorFactory.createMonitor,    *)
(* SceneManager's monitor list and selection, and App's handlers.          *)
(*                                                                         *)
(* JavaScript numbers are modelled as decimal floating-point values with a *)
(* six digit mantissa, truncating, with the exponent range of a double:    *)
(* [t |-> "fin", s |-> sign, m |-> mantissa, e |-> exponent] is            *)
(* s * m * 10^e with m = 0 or 100000 <= m <= 999999, and the non-finite    *)
(* values are [t |-> "nan"] and [t |-> "inf"] with a sign.                 *)
(***************************************************************************)
EXTENDS Integers, Sequences, FiniteSets, TLC

\* ------------------------------------------------------------------------
\* State
\* ------------------------------------------------------------------------

VARIABLES
    monitorList,   \* App.monitorList: the configs, in sidebar order
    idCounter,     \* App.idCounter
    monitors,      \* SceneManager.monitors: the groups in the scene
    tcObject,      \* transformControls.object: [obj, id] of the attached group, or NoObject
    tcMode,        \* transformControls.getMode()
    steps,         \* the number of handler calls made so far
    calls          \* the createMonitor calls a caller of the factory has observed

vars == <<monitorList, idCounter, monitors, tcObject, tcMode, steps, calls>>

appVars == <<monitorList, idCounter, monitors, tcObject, tcMode, steps>>

\* ------------------------------------------------------------------------
\* Number values
\* ------------------------------------------------------------------------

NaN == [t |-> "nan", s |-> 1, m |-> 0, e |-> 0]

Inf(sg) == [t |-> "inf", s |-> sg, m |-> 0, e |-> 0]

Zero == [t |-> "fin", s |-> 1, m |-> 0, e |-> 0]

RECURSIVE Pow10(_)
Pow10(k) == IF k <= 0 THEN 1 ELSE 10 * Pow10(k - 1)

RECURSIVE ShrinkM(_)
\* <<m, e>> with m cut (truncating) below 10^6
ShrinkM(me) == IF me[1] >= 1000000 THEN ShrinkM(<<me[1] \div 10, me[2] + 1>>) ELSE me

RECURSIVE GrowM(_)
\* <<m, e>> with m > 0 raised to at least 10^5
GrowM(me) == IF me[1] < 100000 THEN GrowM(<<me[1] * 10, me[2] - 1>>) ELSE me

\* sg * m * 10^e for a six digit m: overflow gives an infinity (a double holds
\* magnitudes below 1.8e308), underflow gives zero (below 5e-324)
Clip(sg, me) ==
    IF me[2] + 5 > 308 THEN Inf(sg)
    ELSE IF me[2] + 5 < -324 THEN Zero
    ELSE [t |-> "fin", s |-> sg, m |-> me[1], e |-> me[2]]

\* The number sg * m * 10^e, m >= 0
Norm(sg, m, e) == IF m = 0 THEN Zero ELSE Clip(sg, GrowM(ShrinkM(<<m, e>>)))

\* The decimal n / 10^d as a number
Dec(n, d) == Norm(IF n < 0 THEN -1 ELSE 1, IF n < 0 THEN -n ELSE n, -d)

\* The integer n as a number
Int2Num(n) == Dec(n, 0)

IsZero(x) == x.t = "fin" /\ x.m = 0

Neg(x) == IF x.t = "nan" THEN x ELSE [x EXCEPT !.s = -x.s]

\* Math.abs(x)
AbsN(x) == IF x.t = "nan" THEN x ELSE [x EXCEPT !.s = 1]

\* x * y (IEEE 754: infinity * 0 is NaN)
Mul(x, y) ==
    IF x.t = "nan" \/ y.t = "nan" THEN NaN
    ELSE IF x.t = "inf" \/ y.t = "inf"
         THEN IF (x.t = "fin" /\ x.m = 0) \/ (y.t = "fin" /\ y.m = 0) THEN NaN
              ELSE Inf(x.s * y.s)
    ELSE Norm(x.s * y.s,
              (x.m \div 1000) * y.m + ((x.m % 1000) * y.m) \div 1000,
              x.e + y.e + 3)

\* x / y (IEEE 754: 0/0 and infinity/infinity are NaN, n/0 is an infinity)
Div(x, y) ==
    IF x.t = "nan" \/ y.t = "nan" THEN NaN
    ELSE IF x.t = "inf" THEN (IF y.t = "inf" THEN NaN ELSE Inf(x.s * y.s))
    ELSE IF y.t = "inf" THEN Zero
    ELSE IF y.m = 0 THEN (IF x.m = 0 THEN NaN ELSE Inf(x.s * y.s))
    ELSE LET q0 == x.m \div y.m
             r0 == x.m % y.m
             q1 == (r0 * 1000) \div y.m
             r1 == (r0 * 1000) % y.m
             q2 == (r1 * 1000) \div y.m
         IN  Norm(x.s * y.s, q0 * 1000000 + q1 * 1000 + q2, x.e - y.e - 6)

\* xs * xm * 10^e + ys * ym * 10^e
AddMantissas(xs, xm, ys, ym, e) ==
    Norm(IF xs = ys \/ xm >= ym THEN xs ELSE ys,
         IF xs = ys THEN xm + ym ELSE IF xm >= ym THEN xm - ym ELSE ym - xm,
         e)

\* x + y for finite non-zero x, y with x.e - y.e = d >= 0: x is scaled up by up
\* digits (at most three) and y cut to the same exponent
AddShifted(x, y, d, up) ==
    AddMantissas(x.s, x.m * Pow10(up),
                 y.s, IF d - up > 9 THEN 0 ELSE y.m \div Pow10(d - up),
                 x.e - up)

\* x + y for finite non-zero x, y with x.e >= y.e
AddAligned(x, y) == AddShifted(x, y, x.e - y.e, IF x.e - y.e <= 3 THEN x.e - y.e ELSE 3)

\* x + y (IEEE 754: infinity + -infinity is NaN)
Add(x, y) ==
    IF x.t = "nan" \/ y.t = "nan" THEN NaN
    ELSE IF x.t = "inf" THEN (IF y.t = "inf" /\ y.s # x.s THEN NaN ELSE x)
    ELSE IF y.t = "inf" THEN y
    ELSE IF x.m = 0 THEN y
    ELSE IF y.m = 0 THEN x
    ELSE AddAligned(IF x.e >= y.e THEN x ELSE y, IF x.e >= y.e THEN y ELSE x)

Sub(x, y) == Add(x, Neg(y))

\* d < 0
IsNegative(d) == d.t # "nan" /\ d.s = -1 /\ (d.t = "inf" \/ d.m # 0)

\* x < y (false when either is NaN)
Less(x, y) == x.t # "nan" /\ y.t # "nan" /\ IsNegative(Sub(x, y))

\* x > y
Greater(x, y) == Less(y, x)

\* x <= y (false when either is NaN)
LessEq(x, y) == x.t # "nan" /\ y.t # "nan" /\ ~Less(y, x)

RECURSIVE LongDiv(_, _, _, _)
\* floor((q * d + r) * 10^k / d) for 0 <= r < d
LongDiv(q, r, d, k) ==
    IF k = 0 THEN q
    ELSE LongDiv(q * 10 + (r * 10) \div d, (r * 10) % d, d, k - 1)

RECURSIVE Newton(_, _, _)
\* floor(sqrt(m * 10^k)), from an estimate y at or above it
Newton(m, k, y) ==
    IF (y + LongDiv(m \div y, m % y, y, k)) \div 2 >= y THEN y
    ELSE Newton(m, k, (y + LongDiv(m \div y, m % y, y, k)) \div 2)

\* Math.sqrt(x) (NaN for a negative x)
Sqrt(x) ==
    IF x.t = "nan" THEN NaN
    ELSE IF x.t = "inf" THEN (IF x.s = 1 THEN x ELSE NaN)
    ELSE IF x.m = 0 THEN Zero
    ELSE IF x.s = -1 THEN NaN
    ELSE Norm(1, Newton(x.m, IF x.e % 2 = 0 THEN 6 ELSE 5, 1000000),
              (x.e - (IF x.e % 2 = 0 THEN 6 ELSE 5)) \div 2)

\* Math.max(a, b) (NaN when either is NaN)
MathMax(a, b) ==
    IF a.t = "nan" \/ b.t = "nan" THEN NaN
    ELSE IF Less(a, b) THEN b ELSE a

\* Math.PI
MathPI == [t |-> "fin", s |-> 1, m |-> 314159, e |-> -5]

\* Number.isFinite(x)
NumberIsFinite(x) == x.t = "fin"

\* a || b on numbers: NaN and 0 are falsy
OrElse(a, b) == IF a.t = "nan" \/ (a.t = "fin" /\ a.m = 0) THEN b ELSE a

\* ------------------------------------------------------------------------
\* JavaScript values held by a config field or passed by the UI: a number
\* (above), a string [t |-> "str", chars |-> <<"2", "7">>], or undefined.
\* ------------------------------------------------------------------------

Str(cs) == [t |-> "str", chars |-> cs]

Undefined == [t |-> "undef"]

DigitVal ==
    [c \in {"0", "1", "2", "3", "4", "5", "6", "7", "8", "9"} |->
        CASE c = "0" -> 0 [] c = "1" -> 1 [] c = "2" -> 2 [] c = "3" -> 3
          [] c = "4" -> 4 [] c = "5" -> 5 [] c = "6" -> 6 [] c = "7" -> 7
          [] c = "8" -> 8 [] c = "9" -> 9]

RECURSIVE SkipSpace(_, _)
\* The index of the first character of cs, from i, that is not white space
SkipSpace(cs, i) ==
    IF i <= Len(cs) /\ cs[i] = " " THEN SkipSpace(cs, i + 1) ELSE i

RECURSIVE ScanDigits(_, _, _, _, _)
\* The run of digits of cs from i: acc extended by the digits it can hold
\* (used counts them), n the digits read, i the index after the run
ScanDigits(cs, i, acc, n, used) ==
    IF ~(i <= Len(cs) /\ cs[i] \in DOMAIN DigitVal)
    THEN [acc |-> acc, n |-> n, used |-> used, i |-> i]
    ELSE IF acc >= 100000000 THEN ScanDigits(cs, i + 1, acc, n + 1, used)
    ELSE ScanDigits(cs, i + 1, acc * 10 + DigitVal[cs[i]], n + 1, used + 1)

\* cs holds the characters of w from index i
HasPrefixAt(cs, i, w) ==
    /\ i + Len(w) - 1 <= Len(cs)
    /\ \A k \in 1..Len(w) : cs[i + k - 1] = w[k]

\* The value of the exponent digits d read after "e" and a sign sg; 0 when
\* there are none (the "e" is then not part of the literal)
ExponentValue(sg, d) == IF d.n = 0 THEN 0 ELSE sg * (IF d.acc > 9999 THEN 9999 ELSE d.acc)

\* The exponent part of cs at i ("e", a sign, digits): its value, 0 when absent
ScanExponent(cs, i) ==
    IF ~(i <= Len(cs) /\ cs[i] \in {"e", "E"}) THEN 0
    ELSE ExponentValue(IF i + 1 <= Len(cs) /\ cs[i + 1] = "-" THEN -1 ELSE 1,
                       ScanDigits(cs, IF i + 1 <= Len(cs) /\ cs[i + 1] \in {"-", "+"}
                                      THEN i + 2 ELSE i + 1, 0, 0, 0))

\* The literal with integer digits ip and fraction digits fp, then its exponent
ParseExponent(cs, sg, ip, fp) ==
    IF ip.n + fp.n = 0 THEN NaN
    ELSE Norm(sg, fp.acc, (ip.n - ip.used) - fp.used + ScanExponent(cs, fp.i))

\* The literal with integer digits ip, then "." and its fraction digits
ParseFraction(cs, sg, ip) ==
    ParseExponent(cs, sg, ip,
                  IF ip.i <= Len(cs) /\ cs[ip.i] = "."
                  THEN ScanDigits(cs, ip.i + 1, ip.acc, 0, 0)
                  ELSE [acc |-> ip.acc, n |-> 0, used |-> 0, i |-> ip.i])

\* The literal of cs at i, after its sign sg: Infinity or decimal digits
ParseUnsigned(cs, sg, i) ==
    IF HasPrefixAt(cs, i, <<"I", "n", "f", "i", "n", "i", "t", "y">>) THEN Inf(sg)
    ELSE ParseFraction(cs, sg, ScanDigits(cs, i, 0, 0, 0))

\* The literal of cs at i, with its sign
ParseSigned(cs, i) ==
    ParseUnsigned(cs, IF i <= Len(cs) /\ cs[i] = "-" THEN -1 ELSE 1,
                  IF i <= Len(cs) /\ cs[i] \in {"-", "+"} THEN i + 1 ELSE i)

\* parseFloat of a string: the longest prefix that is a decimal literal, after
\* leading white space; NaN when there is none
ParseString(cs) == ParseSigned(cs, SkipSpace(cs, 1))

\* parseFloat(v): a number is converted to a string and parsed back, which
\* gives the number again; undefined reads "undefined", which is NaN
ParseFloat(v) ==
    IF v.t = "str" THEN ParseString(v.chars)
    ELSE IF v.t = "undef" THEN NaN
    ELSE v

\* ------------------------------------------------------------------------
\* MonitorFactory.createMonitor
\* A config is [id, inches, ratioW, ratioH, curvature, isPortrait, locked];
\* its name ("Monitor <id>") only labels the screen texture and is left out.
\* ------------------------------------------------------------------------

\* The diagonal floored but never defaulted
SafeInchesNoDefault(inches) == MathMax(Int2Num(1), ParseFloat(inches))

\* inches = Math.max(1, parseFloat(inches) || 27)
SafeInches(inches) == MathMax(Int2Num(1), OrElse(ParseFloat(inches), Int2Num(27)))

\* ratioW = Math.max(0.1, parseFloat(ratioW) || 16)
SafeRatioW(ratioW) == MathMax(Dec(1, 1), OrElse(ParseFloat(ratioW), Int2Num(16)))

\* ratioH = Math.max(0.1, parseFloat(ratioH) || 9)
SafeRatioH(ratioH) == MathMax(Dec(1, 1), OrElse(ParseFloat(ratioH), Int2Num(9)))

\* diagonalMm = inches * 25.4
DiagonalMm(inches) == Mul(inches, Dec(254, 1))

\* ratio = ratioW / ratioH
Ratio(ratioW, ratioH) == Div(ratioW, ratioH)

\* The height without the unit term under the root
HeightMmNoUnit(diagonalMm, ratio) ==
    Sqrt(Div(Mul(diagonalMm, diagonalMm), Mul(ratio, ratio)))

\* heightMm = Math.sqrt((diagonalMm * diagonalMm) / (ratio * ratio + 1))
HeightMm(diagonalMm, ratio) ==
    Sqrt(Div(Mul(diagonalMm, diagonalMm), Add(Mul(ratio, ratio), Int2Num(1))))

\* widthMm = heightMm * ratio
WidthMm(heightMm, ratio) == Mul(heightMm, ratio)

\* perimeter * 0.95, with perimeter = 2 * Math.PI * radius
WrapLimit(radius) == Mul(Mul(Mul(Int2Num(2), MathPI), radius), Dec(95, 2))

\* The gate with the wrap limit included
IsValidCurvatureInclusive(radius, widthMm) ==
    /\ Greater(radius, Zero)
    /\ Less(radius, Int2Num(10000))
    /\ LessEq(widthMm, WrapLimit(radius))

\* isValidCurvature: radius > 0 && radius < 10000 && widthMm < perimeter * 0.95
IsValidCurvature(radius, widthMm) ==
    /\ Greater(radius, Zero)
    /\ Less(radius, Int2Num(10000))
    /\ Less(widthMm, WrapLimit(radius))

\* The body's thickness: BoxGeometry(widthMm, heightMm, 20), absarc(.., radius + 20, ..)
BodyThickness == [t |-> "fin", s |-> 1, m |-> 200000, e |-> -4]

\* The flat panel: PlaneGeometry(widthMm, heightMm) and the box behind it,
\* translated by -10.1
FlatParts(widthMm, heightMm) ==
    [screen |-> [type |-> "Plane", width |-> widthMm, height |-> heightMm],
     body   |-> [type |-> "Box", width |-> widthMm, height |-> heightMm,
                 depth |-> BodyThickness, z |-> Dec(-101, 1)]]

\* The curved panel for theta = widthMm / radius and half = theta / 2: a partial
\* cylinder from Math.PI - theta / 2, and the body extruded between the arc at
\* radius and the arc at radius + 20
CurvedArcs(radius, heightMm, theta, half) ==
    [screen |-> [type |-> "Cylinder", radiusTop |-> radius, radiusBottom |-> radius,
                 height |-> heightMm,
                 thetaStart |-> Sub(MathPI, half), thetaLength |-> theta,
                 z |-> Add(radius, Dec(5, 1)), repeatX |-> -1],
     body   |-> [type |-> "Extrude",
                 innerRadius |-> radius, innerStart |-> Neg(half), innerEnd |-> half,
                 outerRadius |-> Add(radius, BodyThickness),
                 outerStart |-> half, outerEnd |-> Neg(half),
                 depth |-> heightMm, z |-> radius]]

\* theta = widthMm / radius, and the curved panel made with it
CurvedWith(radius, heightMm, theta) ==
    CurvedArcs(radius, heightMm, theta, Div(theta, Int2Num(2)))

\* The arc angle taken over the diameter
CurvedPartsDiameter(radius, widthMm, heightMm) ==
    CurvedWith(radius, heightMm, Div(widthMm, Mul(Int2Num(2), radius)))

CurvedParts(radius, widthMm, heightMm) == CurvedWith(radius, heightMm, Div(widthMm, radius))

\* group.rotation.z = -Math.PI / 2 for a portrait monitor, 0 (a new group's) otherwise
RotationZ(isPortrait) == IF isPortrait THEN Div(Neg(MathPI), Int2Num(2)) ELSE Zero

\* Half the height, portrait or not
DistanceToBottomOfHeight(isPortrait, widthMm, heightMm) == Div(heightMm, Int2Num(2))

\* distanceToBottom = (isPortrait ? widthMm : heightMm) / 2
DistanceToBottom(isPortrait, widthMm, heightMm) ==
    Div(IF isPortrait THEN widthMm ELSE heightMm, Int2Num(2))

\* The group made of the parts: a new group stands at the origin, unrotated
\* but for rotation.z, and userData holds the id, distanceToBottom and !!locked
Group(config, kind, parts, distanceToBottom) ==
    [id |-> config.id,
     kind |-> kind,
     screen |-> parts.screen,
     body |-> parts.body,
     position |-> [x |-> Zero, y |-> Zero, z |-> Zero],
     rotation |-> [x |-> Zero, y |-> Zero, z |-> RotationZ(config.isPortrait)],
     distanceToBottom |-> distanceToBottom,
     locked |-> config.locked]

\* The curved parts for every positive radius, whatever the gate said
GroupOfPositiveRadius(config, radius, widthMm, heightMm, isValidCurvature) ==
    Group(config,
          IF Greater(radius, Zero) THEN "curved" ELSE "flat",
          IF Greater(radius, Zero) THEN CurvedParts(radius, widthMm, heightMm)
          ELSE FlatParts(widthMm, heightMm),
          DistanceToBottom(config.isPortrait, widthMm, heightMm))

\* The group for the panel, flat unless isValidCurvature
GroupOf(config, radius, widthMm, heightMm, isValidCurvature) ==
    Group(config,
          IF isValidCurvature THEN "curved" ELSE "flat",
          IF isValidCurvature THEN CurvedParts(radius, widthMm, heightMm)
          ELSE FlatParts(widthMm, heightMm),
          DistanceToBottom(config.isPortrait, widthMm, heightMm))

\* The panel's size and radius, then the curvature check and the group
Panel(config, radius, widthMm, heightMm) ==
    GroupOf(config, radius, widthMm, heightMm, IsValidCurvature(radius, widthMm))

\* The panel of the clamped diagonal and ratio
PanelOf(config, diagonalMm, ratio, heightMm) ==
    Panel(config, ParseFloat(config.curvature), WidthMm(heightMm, ratio), heightMm)

Derive(config, diagonalMm, ratio) ==
    PanelOf(config, diagonalMm, ratio, HeightMm(diagonalMm, ratio))

\* createMonitor turning the new group from where the last one was left
CreateMonitorCarry(config) ==
    [Derive(config,
            DiagonalMm(SafeInches(config.inches)),
            Ratio(SafeRatioW(config.ratioW), SafeRatioH(config.ratioH)))
     EXCEPT !.rotation.z =
         IF calls = <<>> THEN @ ELSE Add(@, calls[Len(calls)].group.rotation.z)]

\* MonitorFactory.createMonitor(config): the group it returns
CreateMonitor(config) ==
    Derive(config,
           DiagonalMm(SafeInches(config.inches)),
           Ratio(SafeRatioW(config.ratioW), SafeRatioH(config.ratioH)))

\* The longest sequence of handler calls explored
MaxSteps == 4

\* The most createMonitor calls one caller of the factory is followed through
MaxCalls == 3

\* ------------------------------------------------------------------------
\* SceneManager
\* A scene is [monitors, tcObject]; a group in it carries obj, its identity
\* as a JavaScript object (=== compares identities).
\* ------------------------------------------------------------------------

\* transformControls.object when nothing is attached
NoObject == [obj |-> 0, id |-> 0]

\* The reference transformControls.attach(group) keeps
RefTo(group) == [obj |-> group.obj, id |-> group.id]

\* Array.prototype.findIndex(m => m.id === id), counted from 1; 0 when absent
IndexOfId(seq, id) ==
    IF \E i \in 1..Len(seq) : seq[i].id = id
    THEN CHOOSE i \in 1..Len(seq) : seq[i].id = id /\ \A j \in 1..(i - 1) : seq[j].id # id
    ELSE 0

RemoveAt(seq, i) == SubSeq(seq, 1, i - 1) \o SubSeq(seq, i + 1, Len(seq))

\* The identity of a newly allocated group: one no live reference holds
NewObj(scene) ==
    LET used == {scene.monitors[i].obj : i \in 1..Len(scene.monitors)}
                    \cup ({scene.tcObject.obj} \ {0})
    IN  CHOOSE n \in 1..(Cardinality(used) + 1) : n \notin used /\ \A k \in 1..(n - 1) : k \in used

\* No previous transform (prevTransform = null)
NoTransform == [given |-> FALSE]

\* { position: obj.position.clone(), rotation: obj.rotation.clone() }
TransformOf(group) == [given |-> TRUE, position |-> group.position, rotation |-> group.rotation]

\* The first group of the list spliced out, whichever one was found
RemoveMonitorMeshFirst(scene, id) ==
    LET idx == IndexOfId(scene.monitors, id)
    IN  IF idx = 0 THEN scene
        ELSE [monitors |-> RemoveAt(scene.monitors, 1),
              tcObject |-> IF scene.tcObject.obj = scene.monitors[idx].obj THEN NoObject
                           ELSE scene.tcObject]

\* SceneManager.removeMonitorMesh(id)
RemoveMonitorMesh(scene, id) ==
    LET idx == IndexOfId(scene.monitors, id)
    IN  IF idx = 0 THEN scene
        ELSE [monitors |-> RemoveAt(scene.monitors, idx),
              tcObject |-> IF scene.tcObject.obj = scene.monitors[idx].obj THEN NoObject
                           ELSE scene.tcObject]

\* The previous rotation copied whole, its z with it
PlaceGroupWholeRotation(group, prevTransform) ==
    IF prevTransform.given
    THEN [group EXCEPT !.position = prevTransform.position,
                       !.rotation = prevTransform.rotation]
    ELSE [group EXCEPT !.position = [x |-> Zero,
                                     y |-> Add(group.distanceToBottom, Int2Num(50)),
                                     z |-> Zero]]

\* The group addOrUpdateMonitor places: the previous position and x, y rotation,
\* or the spawn position (0, distanceToBottom + 50, 0)
PlaceGroup(group, prevTransform) ==
    IF prevTransform.given
    THEN [group EXCEPT !.position = prevTransform.position,
                       !.rotation.x = prevTransform.rotation.x,
                       !.rotation.y = prevTransform.rotation.y]
    ELSE [group EXCEPT !.position = [x |-> Zero,
                                     y |-> Add(group.distanceToBottom, Int2Num(50)),
                                     z |-> Zero]]

\* The group as the object allocated with identity n
WithObj(group, n) ==
    [obj |-> n, id |-> group.id, kind |-> group.kind, screen |-> group.screen,
     body |-> group.body, position |-> group.position, rotation |-> group.rotation,
     distanceToBottom |-> group.distanceToBottom, locked |-> group.locked]

\* The new group selected whether or not its config is locked
PushGroupSelected(scene, config, group) ==
    [monitors |-> Append(scene.monitors, group), tcObject |-> RefTo(group)]

\* scene.add(group), monitors.push(group), and selectMonitor(group) unless
\* the config is locked
PushGroup(scene, config, group) ==
    [monitors |-> Append(scene.monitors, group),
     tcObject |-> IF ~config.locked THEN RefTo(group) ELSE scene.tcObject]

\* SceneManager.addOrUpdateMonitor(config, prevTransform), the old group removed
AddGroup(removed, config, placed) ==
    PushGroup(removed, config, WithObj(placed, NewObj(removed)))

\* SceneManager.addOrUpdateMonitor(config, prevTransform)
AddOrUpdateMonitor(scene, config, prevTransform) ==
    AddGroup(RemoveMonitorMesh(scene, config.id), config,
             PlaceGroup(CreateMonitor(config), prevTransform))

\* The gizmo detached from a locked group, the group's own flag left as it was
UpdateLockStateDetachOnly(scene, id, isLocked) ==
    LET idx == IndexOfId(scene.monitors, id)
    IN  IF idx = 0 THEN scene
        ELSE [monitors |-> scene.monitors,
              tcObject |-> IF scene.tcObject.obj = scene.monitors[idx].obj /\ isLocked
                           THEN NoObject
                           ELSE scene.tcObject]

\* SceneManager.updateLockState(id, isLocked)
UpdateLockState(scene, id, isLocked) ==
    LET idx == IndexOfId(scene.monitors, id)
    IN  IF idx = 0 THEN scene
        ELSE [monitors |-> [scene.monitors EXCEPT ![idx].locked = isLocked],
              tcObject |-> IF scene.tcObject.obj = scene.monitors[idx].obj /\ isLocked
                           THEN NoObject
                           ELSE scene.tcObject]

\* ------------------------------------------------------------------------
\* App
\* ------------------------------------------------------------------------

Scene == [monitors |-> monitors, tcObject |-> tcObject]

SetScene(scene) == monitors' = scene.monitors /\ tcObject' = scene.tcObject

\* Every coordinate of the group's position is finite
PositionFinite(group) ==
    /\ NumberIsFinite(group.position.x)
    /\ NumberIsFinite(group.position.y)
    /\ NumberIsFinite(group.position.z)

\* App.validateMonitor(id), the config with that id being in the list
ValidateMonitor(scene, config) ==
    LET idx == IndexOfId(scene.monitors, config.id)
        isValid == idx # 0 /\ PositionFinite(scene.monitors[idx])
    IN  IF isValid THEN scene ELSE AddOrUpdateMonitor(scene, config, NoTransform)

\* refresh3D passing no previous transform
Refresh3DFresh(scene, config) ==
    ValidateMonitor(AddOrUpdateMonitor(scene, config, NoTransform), config)

\* App.refresh3D(config)
Refresh3D(scene, config) ==
    LET idx == IndexOfId(scene.monitors, config.id)
        prevTransform == IF idx # 0 THEN TransformOf(scene.monitors[idx]) ELSE NoTransform
    IN  ValidateMonitor(AddOrUpdateMonitor(scene, config, prevTransform), config)

\* The config addMonitor makes for a new id
NewConfig(id) ==
    [id |-> id, inches |-> Int2Num(27), ratioW |-> Int2Num(16), ratioH |-> Int2Num(9),
     curvature |-> Zero, isPortrait |-> FALSE, locked |-> FALSE]

\* The values the size, ratio and curvature inputs send to updateMonitor
InputValues ==
    {Str(<<"a", "b", "c">>), Str(<<"-", "5">>), Str(<<"1", "e", "2", "0", "0">>),
     Str(<<"5", "0">>)}

ConfigKeys == {"inches", "ratioW", "ratioH", "curvature"}

\* config[key] = parsed, with the clamp updateMonitor applies to that key
UpdatedConfig(config, key, value) ==
    LET parsed == ParseFloat(value)
    IN  CASE key = "inches" ->
               [config EXCEPT !.inches = MathMax(Int2Num(1), OrElse(parsed, Int2Num(27)))]
          [] key = "ratioW" ->
               [config EXCEPT !.ratioW = MathMax(Dec(1, 1), OrElse(parsed, Int2Num(16)))]
          [] key = "ratioH" ->
               [config EXCEPT !.ratioH = MathMax(Dec(1, 1), OrElse(parsed, Int2Num(9)))]
          [] key = "curvature" ->
               [config EXCEPT !.curvature = parsed]

\* The ids a handler may be called with: every id given out so far (a removed
\* monitor's too) and one never given out
KnownIds == 1..(idCounter + 1)

Step == steps < MaxSteps /\ steps' = steps + 1

\* The handler finds no config with that id (or refuses) and returns
NoEffect == UNCHANGED <<monitorList, idCounter, monitors, tcObject, tcMode>>

\* addMonitor numbering the new monitor by the length of the list
addMonitorByLength ==
    /\ Step
    /\ LET config == NewConfig(Len(monitorList) + 1)
       IN  /\ idCounter' = idCounter + 1
           /\ monitorList' = Append(monitorList, config)
           /\ SetScene(AddOrUpdateMonitor(Scene, config, NoTransform))
    /\ UNCHANGED <<tcMode, calls>>

\* App.addMonitor()
addMonitor ==
    /\ Step
    /\ LET config == NewConfig(idCounter + 1)
       IN  /\ idCounter' = idCounter + 1
           /\ monitorList' = Append(monitorList, config)
           /\ SetScene(AddOrUpdateMonitor(Scene, config, NoTransform))
    /\ UNCHANGED <<tcMode, calls>>

\* App.toggleLock(id)
toggleLock(id) ==
    /\ Step
    /\ LET i == IndexOfId(monitorList, id)
       IN  IF i = 0 THEN NoEffect
           ELSE LET locked == ~monitorList[i].locked
                IN  /\ monitorList' = [monitorList EXCEPT ![i].locked = locked]
                    /\ SetScene(UpdateLockState(Scene, id, locked))
                    /\ UNCHANGED <<idCounter, tcMode>>
    /\ UNCHANGED calls

\* resetMonitor rebuilding a locked monitor too
resetMonitorLocked(id) ==
    /\ Step
    /\ LET i == IndexOfId(monitorList, id)
       IN  IF i = 0 THEN NoEffect
           ELSE /\ SetScene(AddOrUpdateMonitor(Scene, monitorList[i], NoTransform))
                /\ UNCHANGED <<monitorList, idCounter, tcMode>>
    /\ UNCHANGED calls

\* App.resetMonitor(id)
resetMonitor(id) ==
    /\ Step
    /\ LET i == IndexOfId(monitorList, id)
       IN  IF i = 0 \/ monitorList[i].locked THEN NoEffect
           ELSE /\ SetScene(AddOrUpdateMonitor(Scene, monitorList[i], NoTransform))
                /\ UNCHANGED <<monitorList, idCounter, tcMode>>
    /\ UNCHANGED calls

\* The config edited to new, and the scene refreshed from it
EditConfig(i, new) ==
    /\ monitorList' = [monitorList EXCEPT ![i] = new]
    /\ SetScene(Refresh3D(Scene, new))
    /\ UNCHANGED <<idCounter, tcMode>>

\* App.setCurvatureType(id, type)
setCurvatureType(id, type) ==
    /\ Step
    /\ LET i == IndexOfId(monitorList, id)
       IN  IF i = 0 THEN NoEffect
           ELSE LET config == monitorList[i]
                IN  EditConfig(i,
                        IF type = "flat" THEN [config EXCEPT !.curvature = Zero]
                        ELSE IF LessEq(config.curvature, Zero)
                             THEN [config EXCEPT !.curvature = Int2Num(1500)]
                             ELSE config)
    /\ UNCHANGED calls

\* App.updateMonitor(id, key, value)
updateMonitor(id, key, value) ==
    /\ Step
    /\ LET i == IndexOfId(monitorList, id)
       IN  IF i = 0 THEN NoEffect
           ELSE EditConfig(i, UpdatedConfig(monitorList[i], key, value))
    /\ UNCHANGED calls

\* App.swapRatio(id)
swapRatio(id) ==
    /\ Step
    /\ LET i == IndexOfId(monitorList, id)
       IN  IF i = 0 THEN NoEffect
           ELSE LET config == monitorList[i]
                IN  EditConfig(i, [config EXCEPT !.ratioW = config.ratioH,
                                                 !.ratioH = config.ratioW])
    /\ UNCHANGED calls

\* App.rotateMonitor(id)
rotateMonitor(id) ==
    /\ Step
    /\ LET i == IndexOfId(monitorList, id)
       IN  IF i = 0 THEN NoEffect
           ELSE LET config == monitorList[i]
                IN  EditConfig(i, [config EXCEPT !.isPortrait = ~config.isPortrait])
    /\ UNCHANGED calls

\* App.moveItem(index, direction), index counted from 1 here; the sidebar's
\* buttons pass the index of a row and a direction of -1 or 1
moveItem(index, direction) ==
    /\ Step
    /\ IF index + direction < 1 \/ index + direction > Len(monitorList) THEN NoEffect
       ELSE /\ monitorList' = [monitorList EXCEPT ![index] = monitorList[index + direction],
                                                  ![index + direction] = monitorList[index]]
            /\ UNCHANGED <<idCounter, monitors, tcObject, tcMode>>
    /\ UNCHANGED calls

\* Array.prototype.filter(m => m.id !== id)
RECURSIVE WithoutId(_, _)
WithoutId(seq, id) ==
    IF seq = <<>> THEN <<>>
    ELSE IF Head(seq).id = id THEN WithoutId(Tail(seq), id)
    ELSE <<Head(seq)>> \o WithoutId(Tail(seq), id)

\* App.removeMonitor(id)
removeMonitor(id) ==
    /\ Step
    /\ monitorList' = WithoutId(monitorList, id)
    /\ SetScene(RemoveMonitorMesh(Scene, id))
    /\ UNCHANGED <<idCounter, tcMode, calls>>

\* The most monitors one pointer ray is taken to pass through
MaxHits == 2

\* What raycaster.intersectObjects can return: monitors of the scene (by their
\* index in SceneManager.monitors), nearest first, each once
HitLists ==
    UNION {{h \in [1..n -> 1..Len(monitors)] : \A i, j \in 1..n : i # j => h[i] # h[j]}
           : n \in 0..MaxHits}

RECURSIVE FirstUnlocked(_, _)
\* The first monitor of hits that is not locked (its index), 0 when there is none
FirstUnlocked(mons, hits) ==
    IF hits = <<>> THEN 0
    ELSE IF mons[Head(hits)].locked THEN FirstUnlocked(mons, Tail(hits))
    ELSE Head(hits)

\* SceneManager.onPointerDown(event): onGizmo is transformControls.dragging ||
\* transformControls.axis (the pointer is on a handle of the attached gizmo)
onPointerDown(onGizmo, hits) ==
    /\ Step
    /\ onGizmo => tcObject # NoObject
    /\ IF onGizmo THEN NoEffect
       ELSE LET target == FirstUnlocked(monitors, hits)
            IN  IF target = 0
                THEN /\ tcObject' = NoObject
                     /\ UNCHANGED <<monitorList, idCounter, monitors, tcMode>>
                ELSE IF tcObject.obj = monitors[target].obj
                THEN /\ tcMode' = IF tcMode = "translate" THEN "rotate" ELSE "translate"
                     /\ UNCHANGED <<monitorList, idCounter, monitors, tcObject>>
                ELSE /\ tcObject' = RefTo(monitors[target])
                     /\ tcMode' = "translate"
                     /\ UNCHANGED <<monitorList, idCounter, monitors>>
    /\ UNCHANGED calls

\* Where a drag of the translate gizmo may leave the attached group
DragPositions ==
    {[x |-> Int2Num(300), y |-> Int2Num(400), z |-> Int2Num(-200)],
     [x |-> Int2Num(-450), y |-> Dec(2181, 1), z |-> Zero]}

\* How a drag of the rotate gizmo may leave the attached group
DragRotations ==
    {[x |-> Zero, y |-> Dec(5, 1), z |-> Zero],
     [x |-> Dec(-25, 2), y |-> Zero, z |-> Dec(75, 2)]}

\* The index in SceneManager.monitors of the group with identity obj; 0 when absent
IndexOfObj(mons, obj) ==
    IF \E i \in 1..Len(mons) : mons[i].obj = obj
    THEN CHOOSE i \in 1..Len(mons) : mons[i].obj = obj
    ELSE 0

\* A drag of the gizmo: TransformControls moves (translate mode) or turns
\* (rotate mode) the group attached to it
dragGizmo ==
    /\ Step
    /\ tcObject # NoObject
    /\ LET i == IndexOfObj(monitors, tcObject.obj)
       IN  IF i = 0 THEN UNCHANGED monitors
           ELSE IF tcMode = "translate"
           THEN \E p \in DragPositions : monitors' = [monitors EXCEPT ![i].position = p]
           ELSE \E r \in DragRotations : monitors' = [monitors EXCEPT ![i].rotation = r]
    /\ UNCHANGED <<monitorList, idCounter, tcObject, tcMode, calls>>

\* The window keydown listener, for Delete or Backspace outside an input field:
\* window.removeMonitor(transformControls.object.userData.id)
onKeyDelete ==
    /\ Step
    /\ IF tcObject = NoObject THEN NoEffect
       ELSE /\ monitorList' = WithoutId(monitorList, tcObject.id)
            /\ SetScene(RemoveMonitorMesh(Scene, tcObject.id))
            /\ UNCHANGED <<idCounter, tcMode>>
    /\ UNCHANGED calls

\* ------------------------------------------------------------------------
\* Callers of MonitorFactory.createMonitor
\* ------------------------------------------------------------------------

InchesValues ==
    {Int2Num(27), Str(<<"4", "9">>), Str(<<"0", ".", "5">>), Zero, Str(<<"-", "5">>),
     Str(<<"a", "b", "c">>), Undefined, Inf(1), Str(<<"1", "e", "2", "0", "0">>)}

RatioWValues ==
    {Int2Num(16), Str(<<"2", "1">>), Str(<<"0", ".", "0", "5">>), Zero, Str(<<"-", "5">>),
     Str(<<"a", "b", "c">>), Str(<<"1", "e", "2", "0", "0">>), Inf(1)}

RatioHValues ==
    {Int2Num(9), Str(<<"1", "0">>), Str(<<"-", "5">>), Str(<<"a", "b", "c">>),
     Undefined, Inf(1)}

\* 181.732 is the radius whose wrap limit is the width of the 49 inch 16:9 panel
CurvatureValues ==
    {Zero, Str(<<"1", "5", "0", "0">>), Int2Num(50), Int2Num(10000), Str(<<"a", "b", "c">>),
     Undefined, Int2Num(-5), Inf(1), Str(<<"1", "8", "1", ".", "7", "3", "2">>),
     Str(<<"1", "8", "1", ".", "7", "3", "3">>), Str(<<"9", "9", "9", "9">>)}

\* The configs createMonitor is called with
FactoryConfigs ==
    [id : {1}, inches : InchesValues, ratioW : RatioWValues, ratioH : RatioHValues,
     curvature : CurvatureValues, isPortrait : BOOLEAN, locked : BOOLEAN]

\* The configs a caller repeats calls with
RepeatConfigs ==
    [id : {1}, inches : {Int2Num(27)}, ratioW : {Int2Num(16)},
     ratioH : {Int2Num(9), Str(<<"-", "5">>)}, curvature : {Zero, Str(<<"1", "5", "0", "0">>)},
     isPortrait : BOOLEAN, locked : BOOLEAN]

\* The width createMonitor computes for the config (widthMm)
DerivedWidth(config) ==
    WidthMm(HeightMm(DiagonalMm(SafeInches(config.inches)),
                     Ratio(SafeRatioW(config.ratioW), SafeRatioH(config.ratioH))),
            Ratio(SafeRatioW(config.ratioW), SafeRatioH(config.ratioH)))

\* One call of createMonitor and the group it returned
CallOf(config) == [config |-> config, group |-> CreateMonitor(config)]

\* A caller calls createMonitor(config)
factoryCall ==
    /\ calls = <<>>
    /\ \E config \in FactoryConfigs : calls' = <<CallOf(config)>>
    /\ UNCHANGED appVars

\* A caller calls createMonitor(config) again, after its earlier calls
factoryCallAgain ==
    /\ Len(calls) < MaxCalls
    /\ \E config \in RepeatConfigs : calls' = Append(calls, CallOf(config))
    /\ UNCHANGED appVars

\* ------------------------------------------------------------------------
\* Specifications
\* ------------------------------------------------------------------------

\* The App constructor: initEvents() ends with addMonitor()
Init ==
    /\ calls = <<>>
    /\ idCounter = 1
    /\ monitorList = <<NewConfig(1)>>
    /\ LET scene == AddOrUpdateMonitor([monitors |-> <<>>, tcObject |-> NoObject],
                                       NewConfig(1), NoTransform)
       IN  monitors = scene.monitors /\ tcObject = scene.tcObject
    /\ tcMode = "translate"
    /\ steps = 0

\* The handlers that edit, add, lock, reset, reorder and remove monitors
EditNext ==
    \/ addMonitor
    \/ \E id \in KnownIds : toggleLock(id)
    \/ \E id \in KnownIds : resetMonitor(id)
    \/ \E id \in KnownIds, type \in {"flat", "curved"} : setCurvatureType(id, type)
    \/ \E id \in KnownIds, key \in ConfigKeys, value \in InputValues : updateMonitor(id, key, value)
    \/ \E id \in KnownIds : swapRatio(id)
    \/ \E id \in KnownIds : rotateMonitor(id)
    \/ \E index \in 1..Len(monitorList), direction \in {-1, 1} : moveItem(index, direction)
    \/ \E id \in KnownIds : removeMonitor(id)

\* The pointer and keyboard handlers of the scene
SceneNext ==
    \/ \E onGizmo \in BOOLEAN, hits \in HitLists : onPointerDown(onGizmo, hits)
    \/ dragGizmo
    \/ onKeyDelete

Next == EditNext \/ SceneNext

\* The application
Spec == Init /\ [][Next]_vars

\* The application driven through its handlers only, the gizmo left alone
SpecEdit == Init /\ [][EditNext]_vars

\* MonitorFactory.createMonitor called with any config
SpecFactory == Init /\ [][factoryCall]_vars

\* MonitorFactory.createMonitor called repeatedly
SpecRepeat == Init /\ [][factoryCallAgain]_vars

\* ---------------------------------------------------------------------------
\* Properties of the derived panel
\* ---------------------------------------------------------------------------

\* Relative tolerance of a comparison between two computed lengths
Tolerance == Dec(1, 4)

\* A printed millimetre value with one decimal stands for anything that rounds to it
PrintedTolerance == Dec(5, 2)

Close(a, b) ==
    IF a.t = "fin" /\ b.t = "fin"
    THEN LessEq(AbsN(Sub(a, b)), Mul(Tolerance, AbsN(b)))
    ELSE a = b

Within(a, b, eps) == LessEq(AbsN(Sub(a, b)), eps)

FinitePositive(x) == x.t = "fin" /\ Greater(x, Zero)

\* The panel height a group was built with
PanelHeight(group) == group.screen.height

\* The panel width a group was built with: the plane's width, or the arc length
PanelWidth(group) ==
    IF group.kind = "flat"
    THEN group.screen.width
    ELSE Mul(group.screen.thetaLength, group.screen.radiusTop)

\* The largest diagonal or ratio part whose squares stay finite
LargestPlain == Norm(1, 1, 100)

InRange(x, lowest) == x.t = "fin" /\ LessEq(lowest, x) /\ LessEq(x, LargestPlain)

\* width / height == ratioW / ratioH and width^2 + height^2 == (D * 25.4)^2
C1_Relations(call) ==
    LET D == Mul(ParseFloat(call.config.inches), Dec(254, 1))
        w == PanelWidth(call.group)
        h == PanelHeight(call.group)
    IN  /\ FinitePositive(w)
        /\ FinitePositive(h)
        /\ Close(Div(w, h),
                 Div(ParseFloat(call.config.ratioW), ParseFloat(call.config.ratioH)))
        /\ Close(Add(Mul(w, w), Mul(h, h)), Mul(D, D))

\* The 27 inch 16:9 panel has the given height and width
C1_Example(call, height, width) ==
    (/\ ParseFloat(call.config.inches) = Int2Num(27)
     /\ ParseFloat(call.config.ratioW) = Int2Num(16)
     /\ ParseFloat(call.config.ratioH) = Int2Num(9))
    => (/\ Within(PanelHeight(call.group), height, PrintedTolerance)
        /\ Within(PanelWidth(call.group), width, PrintedTolerance))

\* C1: for every diagonal D >= 1 and ratio parts >= 0.1, none above 1e100,
\* createMonitor derives width > 0 and height > 0 with width / height equal to
\* ratioW / ratioH and width^2 + height^2 equal to (D * 25.4)^2, up to rounding;
\* a 27 inch 16:9 panel is about 336.2 mm high and 597.7 mm wide.
C1_Derivation ==
    \A i \in 1..Len(calls) :
        /\ (/\ InRange(ParseFloat(calls[i].config.inches), Int2Num(1))
            /\ InRange(ParseFloat(calls[i].config.ratioW), Dec(1, 1))
            /\ InRange(ParseFloat(calls[i].config.ratioH), Dec(1, 1)))
           => C1_Relations(calls[i])
        /\ C1_Example(calls[i], Dec(3362, 1), Dec(5977, 1))

\* createMonitor was called for a curved 49 inch 21:10 panel and the relations hold
C1_Reached ==
    \E i \in 1..Len(calls) :
        /\ ParseFloat(calls[i].config.inches) = Int2Num(49)
        /\ ParseFloat(calls[i].config.ratioW) = Int2Num(21)
        /\ ParseFloat(calls[i].config.ratioH) = Int2Num(10)
        /\ calls[i].group.kind = "curved"
        /\ C1_Relations(calls[i])

\* C1 as the specification words it: the relations for every D > 0 and every
\* positive ratio, and a 27 inch 16:9 panel about 336.6 mm high and 598.5 mm wide
C1_AsWritten ==
    \A i \in 1..Len(calls) :
        /\ (/\ Greater(ParseFloat(calls[i].config.inches), Zero)
            /\ Greater(ParseFloat(calls[i].config.ratioW), Zero)
            /\ Greater(ParseFloat(calls[i].config.ratioH), Zero))
           => C1_Relations(calls[i])
        /\ C1_Example(calls[i], Dec(3366, 1), Dec(5985, 1))

\* 0 < R < 10000 and W < 0.95 * 2 * pi * R
GateOpen(R, W) ==
    /\ Greater(R, Zero)
    /\ Less(R, Int2Num(10000))
    /\ Less(W, Mul(Mul(Mul(Int2Num(2), MathPI), R), Dec(95, 2)))

\* C2: createMonitor builds the curved kind if and only if the radius R and the
\* derived width W satisfy 0 < R < 10000 and W < 0.95 * 2 * pi * R, each bound
\* strict; every other radius gives the flat kind.
C2_CurvatureGate ==
    \A i \in 1..Len(calls) :
        (calls[i].group.kind = "curved")
            <=> GateOpen(ParseFloat(calls[i].config.curvature), DerivedWidth(calls[i].config))

\* createMonitor was called with the width exactly at 0.95 * 2 * pi * R and built flat
C2_AtWrapLimit ==
    \E i \in 1..Len(calls) :
        /\ Greater(ParseFloat(calls[i].config.curvature), Zero)
        /\ DerivedWidth(calls[i].config)
               = Mul(Mul(Mul(Int2Num(2), MathPI), ParseFloat(calls[i].config.curvature)),
                     Dec(95, 2))
        /\ calls[i].group.kind = "flat"

\* The input is non-numeric or not above zero
NotPositive(value) ==
    ParseFloat(value).t = "nan" \/ LessEq(ParseFloat(value), Zero)

Defaulted(value, default) == IF NotPositive(value) THEN default ELSE value

\* C3: a diagonal, ratioW or ratioH that is non-numeric or <= 0 gives the panel
\* of the defaults 27, 16 and 9.
C3_DefaultsApplied ==
    \A i \in 1..Len(calls) :
        calls[i].group
            = CreateMonitor([calls[i].config EXCEPT
                                !.inches = Defaulted(@, Int2Num(27)),
                                !.ratioW = Defaulted(@, Int2Num(16)),
                                !.ratioH = Defaulted(@, Int2Num(9))])

\* A group that can be rendered: a kind, and finite positive dimensions
Usable(group) ==
    /\ group.kind \in {"flat", "curved"}
    /\ FinitePositive(PanelWidth(group))
    /\ FinitePositive(PanelHeight(group))
    /\ FinitePositive(group.distanceToBottom)

\* The input parses to no number, or to one that is at most 1e100
Tame(value) ==
    ParseFloat(value).t = "nan" \/ LessEq(ParseFloat(value), LargestPlain)

\* C4: for every diagonal, ratioW and ratioH that is non-numeric, missing, zero,
\* negative or a number up to 1e100, and every radius, non-finite ones included,
\* createMonitor returns a group of kind flat or curved whose width, height and
\* distanceToBottom are finite and above zero.
C4_UsableGroup ==
    \A i \in 1..Len(calls) :
        (/\ Tame(calls[i].config.inches)
         /\ Tame(calls[i].config.ratioW)
         /\ Tame(calls[i].config.ratioH))
        => Usable(calls[i].group)

\* createMonitor was called with no diagonal, a negative ratio part and an
\* infinite radius, and returned a usable group
C4_DegenerateInput ==
    \E i \in 1..Len(calls) :
        /\ calls[i].config.inches = Undefined
        /\ LessEq(ParseFloat(calls[i].config.ratioW), Zero)
        /\ calls[i].config.curvature = Inf(1)
        /\ Usable(calls[i].group)

\* C4 as the specification words it: a usable group for every input value
C4_AsWritten ==
    \A i \in 1..Len(calls) : Usable(calls[i].group)

\* C5: a radius the gate rejects gives the same group as radius 0.
C5_RejectedIsFlat ==
    \A i \in 1..Len(calls) :
        ~GateOpen(ParseFloat(calls[i].config.curvature), DerivedWidth(calls[i].config))
        => calls[i].group = CreateMonitor([calls[i].config EXCEPT !.curvature = Zero])

\* createMonitor was called with a positive radius too tight for the panel
C5_TooTight ==
    \E i \in 1..Len(calls) :
        /\ ParseFloat(calls[i].config.curvature) = Int2Num(50)
        /\ calls[i].group.kind = "flat"
        /\ calls[i].group = CreateMonitor([calls[i].config EXCEPT !.curvature = Zero])

\* The screen and both body arcs span arcAngle = width / radius about the
\* forward axis, the inner arc at the radius and the outer at radius + thickness
C6_Arcs(call) ==
    LET R == ParseFloat(call.config.curvature)
        screen == call.group.screen
        body == call.group.body
        arcAngle == screen.thetaLength
    IN  /\ arcAngle = Div(DerivedWidth(call.config), R)
        /\ Less(arcAngle, Mul(Dec(95, 2), Mul(Int2Num(2), MathPI)))
        /\ screen.radiusTop = R
        /\ screen.radiusBottom = R
        /\ Close(Add(screen.thetaStart, Div(arcAngle, Int2Num(2))), MathPI)
        /\ body.innerRadius = R
        /\ body.outerRadius = Add(R, Int2Num(20))
        /\ Close(Sub(body.innerEnd, body.innerStart), arcAngle)
        /\ Close(Sub(body.outerStart, body.outerEnd), arcAngle)
        /\ body.innerStart = Neg(body.innerEnd)
        /\ body.outerStart = body.innerEnd
        /\ body.outerEnd = body.innerStart

\* C6: a curved group's screen and both body arcs (inner at the radius, outer at
\* radius + thickness) span arcAngle = width / radius about the forward axis,
\* with 0 <= arcAngle < 0.95 * 2 * pi, and 0 < arcAngle whenever ratioW and
\* ratioH are non-numeric or at most 1e100.
C6_CurvedArc ==
    \A i \in 1..Len(calls) :
        calls[i].group.kind = "curved" =>
            /\ C6_Arcs(calls[i])
            /\ LessEq(Zero, calls[i].group.screen.thetaLength)
            /\ (Tame(calls[i].config.ratioW) /\ Tame(calls[i].config.ratioH))
               => Greater(calls[i].group.screen.thetaLength, Zero)

\* createMonitor was called with a radius just inside the gate and built curved
C6_NearlyWrapped ==
    \E i \in 1..Len(calls) :
        /\ calls[i].group.kind = "curved"
        /\ Greater(calls[i].group.screen.thetaLength, Dec(596, 2))
        /\ calls[i].group.body.outerRadius
               = Add(ParseFloat(calls[i].config.curvature), Int2Num(20))

\* C6 as the specification words it: 0 < arcAngle in every curved group
C6_AsWritten ==
    \A i \in 1..Len(calls) :
        calls[i].group.kind = "curved" =>
            /\ C6_Arcs(calls[i])
            /\ Greater(calls[i].group.screen.thetaLength, Zero)

HasConfig(group) == IndexOfId(monitorList, group.id) # 0

ConfigOf(group) == monitorList[IndexOfId(monitorList, group.id)]

\* distanceToBottom is half of the dimension that lies along the up axis
HalfOfUpDimension(group, isPortrait) ==
    Close(Add(group.distanceToBottom, group.distanceToBottom),
          IF isPortrait THEN PanelWidth(group) ELSE PanelHeight(group))

C7_HalfOfUp ==
    \A k \in 1..Len(monitors) :
        HasConfig(monitors[k]) => HalfOfUpDimension(monitors[k], ConfigOf(monitors[k]).isPortrait)

\* The group rotateMonitor(id) leaves has the size and kind of the one it found
C7_SameSize(id) ==
    LET before == monitors[IndexOfId(monitors, id)]
        after == monitors'[IndexOfId(monitors', id)]
    IN  /\ IndexOfId(monitors, id) # 0
        /\ IndexOfId(monitors', id) # 0
        /\ after.kind = before.kind
        /\ after.screen = before.screen
        /\ after.body = before.body
        /\ HalfOfUpDimension(before, ConfigOf(before).isPortrait)
        /\ HalfOfUpDimension(after, ~ConfigOf(before).isPortrait)

C7_Rotate ==
    \A id \in KnownIds :
        C7_SameSize(id) \/ IndexOfId(monitorList, id) = 0 \/ ~rotateMonitor(id)

\* C7: distanceToBottom is half the height of a landscape monitor and half the
\* width of a portrait one, and rotateMonitor, which flips isPortrait, moves it
\* from the one to the other and leaves width, height and the kind as they were.
C7_PortraitSwap == []C7_HalfOfUp /\ [][C7_Rotate]_vars

\* A curved monitor was rotated to portrait and rests on half its width
C7_Rotated ==
    \E k \in 1..Len(monitors) :
        /\ HasConfig(monitors[k])
        /\ ConfigOf(monitors[k]).isPortrait
        /\ monitors[k].kind = "curved"
        /\ HalfOfUpDimension(monitors[k], TRUE)
        /\ ~HalfOfUpDimension(monitors[k], FALSE)

\* The group of monitor id is turned a quarter about z if portrait, else not at all
C9_Turned(id) ==
    LET group == monitors'[IndexOfId(monitors', id)]
        config == monitorList'[IndexOfId(monitorList', id)]
    IN  /\ IndexOfId(monitors', id) # 0
        /\ IndexOfId(monitorList', id) # 0
        /\ IF config.isPortrait
           THEN Close(AbsN(group.rotation.z), Div(MathPI, Int2Num(2)))
           ELSE group.rotation.z = Zero

\* The step builds or rebuilds the group of monitor id
C9_Builds(id) ==
    \/ id = idCounter + 1 /\ addMonitor
    \/ /\ IndexOfId(monitorList, id) # 0
       /\ \/ ~monitorList[IndexOfId(monitorList, id)].locked /\ resetMonitor(id)
          \/ rotateMonitor(id)
          \/ swapRatio(id)
          \/ \E type \in {"flat", "curved"} : setCurvatureType(id, type)
          \/ \E key \in ConfigKeys, value \in InputValues : updateMonitor(id, key, value)

\* C9: right after addMonitor, updateMonitor, setCurvatureType, swapRatio,
\* rotateMonitor or resetMonitor builds a monitor's group, the group's rotation
\* about z is a quarter turn if the config is portrait and 0 otherwise, whatever
\* the rotation of the group it replaces.
C9_QuarterTurn == [][\A id \in KnownIds : C9_Turned(id) \/ ~C9_Builds(id)]_vars

\* A monitor turned with the gizmo was rebuilt portrait: the x rotation was kept,
\* the z rotation is the quarter turn
C9_Rebuilt ==
    \E k \in 1..Len(monitors) :
        /\ HasConfig(monitors[k])
        /\ ConfigOf(monitors[k]).isPortrait
        /\ monitors[k].rotation.x = Dec(-25, 2)
        /\ Close(AbsN(monitors[k].rotation.z), Div(MathPI, Int2Num(2)))

\* The group carries what createMonitor derives from the config
DerivedFrom(group, config) ==
    LET derived == CreateMonitor(config)
    IN  /\ group.kind = derived.kind
        /\ group.screen = derived.screen
        /\ group.body = derived.body
        /\ group.distanceToBottom = derived.distanceToBottom
        /\ group.rotation.z = derived.rotation.z
        /\ group.locked = derived.locked

\* C10: after any sequence of addMonitor, updateMonitor, setCurvatureType,
\* swapRatio, rotateMonitor, toggleLock, resetMonitor, moveItem and removeMonitor,
\* every group of the scene carries the kind, width, height, distanceToBottom,
\* z rotation and lock that createMonitor derives from its monitor's config.
C10_NoStaleState ==
    \A k \in 1..Len(monitors) :
        HasConfig(monitors[k]) /\ DerivedFrom(monitors[k], ConfigOf(monitors[k]))

\* A monitor was curved, rotated and locked, and its group shows all three
C10_Edited ==
    \E k \in 1..Len(monitors) :
        /\ HasConfig(monitors[k])
        /\ ConfigOf(monitors[k]).isPortrait
        /\ ConfigOf(monitors[k]).locked
        /\ monitors[k].kind = "curved"
        /\ monitors[k].locked
        /\ DerivedFrom(monitors[k], ConfigOf(monitors[k]))

\* The step is an edit of the config of monitor id, which exists
EditsConfig(id) ==
    /\ IndexOfId(monitorList, id) # 0
    /\ \/ rotateMonitor(id)
       \/ swapRatio(id)
       \/ \E type \in {"flat", "curved"} : setCurvatureType(id, type)
       \/ \E key \in ConfigKeys, value \in InputValues : updateMonitor(id, key, value)

\* After the step monitor id is in the scene and its position is finite
C11_Placed(id) ==
    /\ IndexOfId(monitors', id) # 0
    /\ PositionFinite(monitors'[IndexOfId(monitors', id)])

\* C11: after each updateMonitor, setCurvatureType, swapRatio or rotateMonitor
\* on an existing monitor, the monitor is in the scene and every coordinate of
\* its position is finite.
C11_FiniteAfterEdit == [][\A id \in KnownIds : C11_Placed(id) \/ ~EditsConfig(id)]_vars

\* Monitor b has the config and the group after the step that it had before
Untouched(b) ==
    /\ (IndexOfId(monitorList', b) = 0) = (IndexOfId(monitorList, b) = 0)
    /\ IndexOfId(monitorList, b) # 0
       => monitorList'[IndexOfId(monitorList', b)] = monitorList[IndexOfId(monitorList, b)]
    /\ (IndexOfId(monitors', b) = 0) = (IndexOfId(monitors, b) = 0)
    /\ IndexOfId(monitors, b) # 0
       => monitors'[IndexOfId(monitors', b)] = monitors[IndexOfId(monitors, b)]

\* The step is a handler called for monitor id
AddressedTo(id) ==
    \/ rotateMonitor(id)
    \/ swapRatio(id)
    \/ toggleLock(id)
    \/ resetMonitor(id)
    \/ removeMonitor(id)
    \/ \E type \in {"flat", "curved"} : setCurvatureType(id, type)
    \/ \E key \in ConfigKeys, value \in InputValues : updateMonitor(id, key, value)

C12_Frame ==
    \A id \in KnownIds :
        (\A b \in KnownIds \ {id} : Untouched(b)) \/ ~AddressedTo(id)

\* Some configs an edit of the config may leave
EditsOf(config) ==
    {[config EXCEPT !.isPortrait = ~config.isPortrait],
     UpdatedConfig(config, "curvature", Str(<<"1", "5", "0", "0">>))}

\* What a group is apart from its identity as an object
Shown(group) == [group EXCEPT !.obj = 0]

\* Two scenes show the same monitors
SameMonitors(a, b) ==
    {Shown(a.monitors[k]) : k \in 1..Len(a.monitors)}
        = {Shown(b.monitors[k]) : k \in 1..Len(b.monitors)}

\* Edits of two different monitors leave the same monitors in either order
C12_EitherOrder ==
    \A i \in 1..Len(monitorList), j \in 1..Len(monitorList) :
        i < j =>
            \A first \in EditsOf(monitorList[i]), second \in EditsOf(monitorList[j]) :
                SameMonitors(Refresh3D(Refresh3D(Scene, first), second),
                             Refresh3D(Refresh3D(Scene, second), first))

\* C12: a handler called for monitor A (updateMonitor, setCurvatureType,
\* swapRatio, rotateMonitor, toggleLock, resetMonitor, removeMonitor) leaves the
\* config, geometry, position, rotation and lock of every other monitor as they
\* were, and edits of two different monitors give the same monitors in either order.
C12_Independent == []C12_EitherOrder /\ [][C12_Frame]_vars

\* The second monitor was curved and rotated; the first is as it was added
C12_OtherEdited ==
    /\ Len(monitorList) = 2
    /\ Len(monitors) = 2
    /\ monitorList[1] = NewConfig(1)
    /\ monitorList[2].isPortrait
    /\ \E k \in 1..2 : monitors[k].id = 2 /\ monitors[k].kind = "curved"
    /\ \E k \in 1..2 :
           /\ monitors[k].id = 1
           /\ monitors[k].kind = "flat"
           /\ monitors[k].position.x = Zero
           /\ monitors[k].rotation.z = Zero

\* C13: the object attached to the transform gizmo is a group of the scene, the
\* one of the monitor it names, and neither that group nor its config is locked.
C13_SelectedUnlocked ==
    tcObject # NoObject =>
        \E k \in 1..Len(monitors) :
            /\ monitors[k].obj = tcObject.obj
            /\ monitors[k].id = tcObject.id
            /\ ~monitors[k].locked
            /\ HasConfig(monitors[k])
            /\ ~ConfigOf(monitors[k]).locked

\* A locked monitor was rebuilt by an edit while another monitor stays selected
C13_LockedRebuilt ==
    /\ tcObject # NoObject
    /\ \E k \in 1..Len(monitors) :
           /\ monitors[k].locked
           /\ monitors[k].kind = "curved"
           /\ monitors[k].id # tcObject.id

\* The ids of the configs, and of the groups of the scene
ConfigIds == {monitorList[i].id : i \in 1..Len(monitorList)}

SceneIds == {monitors[k].id : k \in 1..Len(monitors)}

\* The same ids in the list and in the scene, each once, none above the
\* counter, and each group locked as its config is
C14_SameIds ==
    /\ ConfigIds = SceneIds
    /\ Cardinality(ConfigIds) = Len(monitorList)
    /\ Cardinality(SceneIds) = Len(monitors)
    /\ \A id \in ConfigIds : id >= 1 /\ id <= idCounter
    /\ \A k \in 1..Len(monitors) :
           HasConfig(monitors[k]) /\ monitors[k].locked = ConfigOf(monitors[k]).locked

\* The counter never falls, and an id that enters the list is the counter's next
C14_FreshIds ==
    /\ idCounter' >= idCounter
    /\ \A i \in 1..Len(monitorList') :
           monitorList'[i].id \notin ConfigIds
           => monitorList'[i].id = idCounter + 1 /\ idCounter' = idCounter + 1

\* C14: the ids of App.monitorList are the ids of SceneManager.monitors, each
\* once in each, every group is locked exactly when its config is, and ids come
\* from a counter that only grows, so a removed id is never given out again.
C14_IdsAgree == []C14_SameIds /\ [][C14_FreshIds]_vars

\* A monitor was removed and a later one added: the removed id stays unused
C14_AfterRemoval ==
    /\ idCounter = 3
    /\ ConfigIds = {1, 3}
    /\ SceneIds = {1, 3}

\* The group of monitor id stands after the step where it stood before, turned
\* about x and y as it was
C15_Kept(id) ==
    LET before == monitors[IndexOfId(monitors, id)]
        after == monitors'[IndexOfId(monitors', id)]
    IN  /\ IndexOfId(monitors, id) # 0
        /\ IndexOfId(monitors', id) # 0
        /\ after.position = before.position
        /\ after.rotation.x = before.rotation.x
        /\ after.rotation.y = before.rotation.y

\* Monitor id has a group whose position is finite
C15_FinitelyPlaced(id) ==
    /\ IndexOfId(monitors, id) # 0
    /\ PositionFinite(monitors[IndexOfId(monitors, id)])

\* C15: updateMonitor, setCurvatureType, swapRatio and rotateMonitor on an
\* existing monitor whose position is finite leave its position and its rotation
\* about x and y exactly as they were, locked or not.
C15_EditKeepsPlacement ==
    [][\A id \in KnownIds :
           C15_Kept(id) \/ ~C15_FinitelyPlaced(id) \/ ~EditsConfig(id)]_vars

\* A monitor dragged away, then locked, then rotated stands where it was dragged
C15_DraggedThenEdited ==
    \E k \in 1..Len(monitors) :
        /\ HasConfig(monitors[k])
        /\ ConfigOf(monitors[k]).isPortrait
        /\ monitors[k].locked
        /\ monitors[k].position.x = Int2Num(300)

\* The group stands at the default spawn transform
AtSpawn(group) ==
    /\ group.position = [x |-> Zero, y |-> Add(group.distanceToBottom, Int2Num(50)), z |-> Zero]
    /\ group.rotation.x = Zero
    /\ group.rotation.y = Zero

\* What resetMonitor(id) must have left: nothing changed for an unknown id or a
\* locked monitor, else the same configs and the monitor's group at the spawn
C16_Left(id) ==
    IF IndexOfId(monitorList, id) = 0 \/ monitorList[IndexOfId(monitorList, id)].locked
    THEN UNCHANGED <<monitorList, idCounter, monitors, tcObject, tcMode>>
    ELSE /\ monitorList' = monitorList
         /\ IndexOfId(monitors', id) # 0
         /\ AtSpawn(monitors'[IndexOfId(monitors', id)])

\* C16: resetMonitor on a locked monitor or an unknown id changes no config, no
\* group and not the selection; on an unlocked monitor it leaves the configs as
\* they were and puts the group at position (0, distanceToBottom + 50, 0) with
\* rotation x = y = 0.
C16_Reset == [][\A id \in KnownIds : C16_Left(id) \/ ~resetMonitor(id)]_vars

\* A monitor rotated to portrait, all else as it was added, stands at the spawn
\* of its new distanceToBottom: it was reset
C16_WasReset ==
    \E k \in 1..Len(monitors) :
        /\ HasConfig(monitors[k])
        /\ ConfigOf(monitors[k]) = [NewConfig(monitors[k].id) EXCEPT !.isPortrait = TRUE]
        /\ Greater(monitors[k].position.y, Int2Num(300))
        /\ AtSpawn(monitors[k])

====
